---- MODULE Spec2Model ----
(***************************************************************************)
(* GitJobHunter API: the ingestion / dedup / notify pipeline.              *)
(*                                                                         *)
(* The model follows the Prisma variant of the pipeline                    *)
(*   services/jobProcessor.ts  (src/unnamed/part_003)  processJobs         *)
(*   services/feeds.ts         (src/unnamed/part_002)  fetchRSS, isJobSeen,*)
(*                                                     saveJobs            *)
(*   services/discord.ts       (src/api/src/services/discord.ts)           *)
(*   routes/config.ts          (src/api/src/routes/config.ts)              *)
(* A run of processJobs is a sequence of steps, one per await of the code. *)
(* Strings are sequences of character codes.                               *)
(***************************************************************************)
EXTENDS Integers, Sequences, FiniteSets, TLC

\* ------------------------------------------------------------------ bounds
MaxFeeds == 2        \* rows of the feeds table
MaxDocLen == 2       \* entries of one feed document
MaxRuns == 2         \* runs of processJobs in one behaviour
MaxFaults == 1       \* environment faults (HTTP, storage, webhook) in one behaviour
MaxTextLen == 6      \* characters of a string hashed directly
MaxTail == 2         \* characters of a title from the 200th on

\* ------------------------------------------------------- program constants
TitleMax == 200      \* title.substring(0, 200)
DefaultMaxJobs == 10 \* maxJobsPerMessage || 10, and the route's default
MinMaxJobs == 1      \* maxJobsPerMessage < 1  is rejected
MaxMaxJobs == 10     \* maxJobsPerMessage > 10 is rejected
Shl5 == 32           \* hash << 5
HashMul == 31        \* (hash << 5) - hash
FailureThreshold == 5 \* FEED_FAILURE_THRESHOLD: auto-disable after N failures
Half == 65536        \* 2^16: a 32-bit word is kept as two 16-bit halves
PreviewLimit == 5    \* getRecentJobs(db, 5)

\* ------------------------------------------------------------- input sets
Procs == {"manual", "cron"}   \* POST /jobs/process and the scheduled handler
FeedNames == <<"A", "B", "C">>
\* items of feed documents, after field extraction: link "a" or "ab", title
\* "b" or "bb".  Two share a link, two share link + title ("abb").
Entries == {[link |-> <<97>>, title |-> <<98>>],
            [link |-> <<97>>, title |-> <<98, 98>>],
            [link |-> <<97, 98>>, title |-> <<98>>]}
WebhookHosts == {"discord.com", "discordapp.com"}
ReqUrls == {[present |-> FALSE, host |-> ""],
            [present |-> TRUE, host |-> "example.com"],
            [present |-> TRUE, host |-> "discord.com"]}
\* maxJobsPerMessage of a request body, a JSON value: an integer, or a
\* string that is no numeral, such as "many"
ReqMaxJobs ==
  {[number |-> TRUE, value |-> n] : n \in {0, 1, 2, 11}}
    \cup {[number |-> FALSE, value |-> 0]}

Min(a, b) == IF a < b THEN a ELSE b

Range(seq) == {seq[k] : k \in 1..Len(seq)}

RECURSIVE SeqsUpTo(_, _)
SeqsUpTo(S, n) ==
  IF n = 0 THEN {<<>>}
  ELSE LET shorter == SeqsUpTo(S, n - 1)
       IN shorter \cup {Append(s, x) : s \in {t \in shorter : Len(t) = n - 1}, x \in S}

Docs == SeqsUpTo(Entries, MaxDocLen)

\* strings given to generateHash directly: code units "a" and 0xFFFF
HashChars == {97, 65535}
Texts == SeqsUpTo(HashChars, MaxTextLen)

\* items with titles of TitleMax - 1 to TitleMax - 1 + MaxTail characters:
\* 199 times "b", then up to MaxTail of "b", "c"
RECURSIVE Repeat(_, _)
Repeat(char, n) ==
  IF n = 0 THEN <<>>
  ELSE IF n = 1 THEN <<char>>
  ELSE Repeat(char, n \div 2) \o Repeat(char, n - (n \div 2))

LongTitles ==
  {Repeat(98, TitleMax - 1) \o tail : tail \in SeqsUpTo({98, 99}, MaxTail)}
LongItems == {[link |-> <<97>>, title |-> t] : t \in LongTitles}

\* ------------------------------------------------------------ generateHash
\* A 32-bit word is kept as <<hi, lo>>, two 16-bit halves.
\* hash << 5: the low 32 bits of the word shifted left by five
ShiftLeft(w) ==
  LET lo == w[2] * Shl5
      hi == w[1] * Shl5 + (lo \div Half)
  IN <<hi % Half, lo % Half>>

\* a - b on words.  The code subtracts and adds in double precision, where
\* these sums are exact, and `hash & hash` then keeps the low 32 bits: the
\* low 32 bits of each intermediate sum give the same word.
Minus(a, b) ==
  LET lo == a[2] - b[2]
      borrow == IF lo < 0 THEN 1 ELSE 0
  IN <<(a[1] - b[1] - borrow + Half) % Half, (lo + Half) % Half>>

\* a + char, char a UTF-16 code unit
Plus(a, char) ==
  LET lo == a[2] + char
  IN <<(a[1] + (lo \div Half)) % Half, lo % Half>>

\* mutant of HashStep: (hash << 5) + hash, the multiplier 33 of djb2
HashStepAdds(w, char) ==
  LET s == ShiftLeft(w)
      lo == s[2] + w[2] + char
  IN <<(s[1] + w[1] + (lo \div Half)) % Half, lo % Half>>

\* one round of the loop:
\*   hash = ((hash << 5) - hash) + char ; hash = hash & hash
HashStep(w, char) == Plus(Minus(ShiftLeft(w), w), char)

\* the loop over the characters of text, from the word w.  The rounds of
\* i = 0 .. length - 1 are the rounds of the first half of text followed by
\* the rounds of the second half.
RECURSIVE HashFold(_, _)
HashFold(w, text) ==
  IF Len(text) = 0 THEN w
  ELSE IF Len(text) = 1 THEN HashStep(w, text[1])
  ELSE LET mid == Len(text) \div 2
           first == HashFold(w, SubSeq(text, 1, mid))
       IN IF first \in Seq(Nat)   \* the first half is worked out before the second
          THEN HashFold(first, SubSeq(text, mid + 1, Len(text)))
          ELSE first

\* the signed 32-bit value of a word
ToInt32(w) ==
  IF w[1] >= Half \div 2 THEN (w[1] - Half) * Half + w[2] ELSE w[1] * Half + w[2]

\* Number.prototype.toString(): decimal digits, most significant first
RECURSIVE Digits(_)
Digits(n) ==
  IF n < 10 THEN <<48 + n>> ELSE Append(Digits(n \div 10), 48 + (n % 10))

NumToString(n) ==
  IF n >= 0 THEN Digits(n)
  ELSE IF -n < 0 THEN <<45, 50, 49, 52, 55, 52, 56, 51, 54, 52, 56>>  \* -2147483648
  ELSE <<45>> \o Digits(-n)

generateHash(text) == NumToString(ToInt32(HashFold(<<0, 0>>, text)))

\* ---------------------------------------------------------------- fetchRSS
Substring(s, n) == SubSeq(s, 1, Min(Len(s), n))

\* the object built for one item of the parsed document (description and
\* the two dates play no part in dedup or batching and are left out)
HashInput(item) == item.link \o item.title

\* mutant of JobOf: the title is cut first and the cut title is hashed
JobOfCutsFirst(item) ==
  [id |-> generateHash(item.link \o Substring(item.title, TitleMax)),
   title |-> Substring(item.title, TitleMax),
   link |-> item.link,
   hash |-> generateHash(item.link \o Substring(item.title, TitleMax))]

JobOf(item) ==
  [id |-> generateHash(HashInput(item)),
   title |-> Substring(item.title, TitleMax),
   link |-> item.link,
   hash |-> generateHash(HashInput(item))]

\* fetchRSS: every fault inside the try block ends in `return []`
fetchRSS(document, ok) ==
  IF ok THEN [k \in 1..Len(document) |-> JobOf(document[k])] ELSE <<>>

\* an entry as the XML parser hands it to the callback of itemsArray.map:
\* its fields, and whether the callback can map them.  It cannot when the
\* title came out of the parser as a number (title.substring is no function)
\* or the date is no date (toISOString throws RangeError).
ParsedEntries == {[item |-> e, mappable |-> b] : e \in Entries, b \in BOOLEAN}

\* what `parsed.rss?.channel?.item || parsed.feed?.entry` is for a document:
\* undefined, one object (a document with a single entry, kept in field
\* object as a set of one), or an array
ParsedItems ==
  {[shape |-> "undefined", object |-> {}, array |-> <<>>]}
    \cup {[shape |-> "object", object |-> {e}, array |-> <<>>] : e \in ParsedEntries}
    \cup {[shape |-> "array", object |-> {}, array |-> d] :
             d \in SeqsUpTo(ParsedEntries, MaxDocLen)}

\* the answer of a feed source: ok is false when fetch rejects, the status
\* is no 2xx, or the body does not parse
Responses == {[ok |-> b, items |-> i] : b \in BOOLEAN, i \in ParsedItems}

\* `items || []`, then Array.isArray(items) ? items : [items]
itemsArray(items) ==
  IF items.shape = "undefined" THEN <<>>
  ELSE IF items.shape = "array" THEN items.array
  ELSE <<CHOOSE e \in items.object : TRUE>>

\* a mapping that leaves out the entries it cannot map
MapMappable(entries) ==
  LET kept == SelectSeq(entries, LAMBDA e : e.mappable)
  IN [threw |-> FALSE, jobs |-> [k \in 1..Len(kept) |-> JobOf(kept[k].item)]]

\* itemsArray.map(callback): the callback runs entry by entry, and the
\* first throw ends the map without a result
MapAll(entries) ==
  IF \E k \in 1..Len(entries) : ~entries[k].mappable
  THEN [threw |-> TRUE, jobs |-> <<>>]
  ELSE [threw |-> FALSE, jobs |-> fetchRSS([k \in 1..Len(entries) |-> entries[k].item], TRUE)]

\* fetchRSS on the answer of the source: the whole body is inside try, and
\* the catch returns []
fetchRSSOn(response) ==
  IF ~response.ok THEN <<>>
  ELSE LET mapped == MapAll(itemsArray(response.items))
       IN IF mapped.threw THEN <<>> ELSE mapped.jobs

\* ------------------------------------------------------------------- state
VARIABLES
  feedsTbl,    \* table feeds, in findMany order: rows [name, enabled]
  doc,         \* per feed: <<>> until first requested, then <<document>>,
               \* the document that source serves from then on
  jobsTbl,     \* table jobs: rows [id, title, link, hash, feedId]
  durable,     \* history: hashes of the rows stored by saveJobs calls that returned
  configTbl,   \* table discord_configs: <<>> or <<row>>
  cfgReq,      \* POST /config between deleteMany and create: <<>> or <<data>>,
               \* data with the table as it was before deleteMany
  run,         \* per caller: position and locals of its processJobs call
  prev,        \* digest of the run completed before the current or last one
  started,     \* runs started so far
  faults,      \* environment faults so far
  probe,       \* the last two direct calls of a pure function, with their results
  budget,      \* the runs and the environment faults a behaviour may hold
  strikes,     \* history, per feed: failed fetches since its last fetch that succeeded
  kv           \* the KV variant (src/api/src/feeds.ts): key seen_jobs, the clock,
               \* and per caller the position and locals of its processJobs call

vars == <<feedsTbl, doc, jobsTbl, durable, configTbl, cfgReq, run, prev, started, faults,
          probe, budget, strikes, kv>>

\* ------------------------------------------------------------ persistence
\* mutant of isJobSeen: the lookup never finds a row
isJobSeenNever(table, hash, ok) == FALSE

\* isJobSeen: findUnique by hash; a storage fault is caught and gives false
isJobSeen(table, hash, ok) == ok /\ \E row \in table : row.hash = hash

\* unique keys of table jobs: jobs_pkey (id), jobs_link_key, jobs_hash_key
Conflicts(table, row) ==
  \E t \in table : t.id = row.id \/ t.link = row.link \/ t.hash = row.hash

\* mutant of createMany: plain inserts into a table without unique keys
createManyUnchecked(table, rows) == table \cup Range(rows)

\* db.job.createMany({ data, skipDuplicates: true }): rows in order, a row
\* that conflicts with a stored or an earlier row is skipped
RECURSIVE createMany(_, _)
createMany(table, rows) ==
  IF rows = <<>> THEN table
  ELSE createMany(IF Conflicts(table, Head(rows)) THEN table
                  ELSE table \cup {Head(rows)}, Tail(rows))

\* jobsData: the rows built from a feed's new jobs
jobsData(jobs, feedId) ==
  [k \in 1..Len(jobs) |->
    [id |-> jobs[k].id, title |-> jobs[k].title, link |-> jobs[k].link,
     hash |-> jobs[k].hash, feedId |-> feedId]]

\* mutant of saveJobs: a save that fails has written its rows all the same
saveJobsWritesThenFails(table, jobs, feedId, ok) ==
  createMany(table, jobsData(jobs, feedId))

\* saveJobs: the table after the call; createMany is one statement, so a
\* failure writes nothing (and is rethrown to the caller)
saveJobs(table, jobs, feedId, ok) ==
  IF ok THEN createMany(table, jobsData(jobs, feedId)) ELSE table

\* getRecentJobs: findMany ordered by processedAt descending, take: limit; a
\* storage fault is caught and gives [].  The rows carry no processedAt
\* here, so the result is the set of its rows, and which rows are the latest
\* is open when the table holds more than limit: every choice is a result.
getRecentJobs(table, limit, ok) ==
  IF ok THEN {rows \in SUBSET table : Cardinality(rows) = Min(limit, Cardinality(table))}
  ELSE {{}}

\* getDiscordConfig: findFirst; a storage fault is caught and gives null (<<>>)
getDiscordConfig(table, ok) == IF ok THEN table ELSE <<>>

\* getAllFeeds: findMany; a storage fault is caught and gives []
getAllFeeds(table, ok) == IF ok THEN table ELSE <<>>

\* ------------------------------------------------------------ POST /config
isValidDiscordWebhook(url) == url.host \in WebhookHosts

\* v < n and v > n of JavaScript for a JSON value v: a string that is no
\* numeral converts to NaN, and every comparison with NaN is false
LessThan(v, n) == v.number /\ v.value < n
GreaterThan(v, n) == v.number /\ v.value > n

\* the checks of the route before upsertDiscordConfig: 0 when they pass,
\* else the status of the answer
ConfigRejection(url, maxJobsPerMessage) ==
  IF ~url.present THEN 400
  ELSE IF ~isValidDiscordWebhook(url) THEN 400
  ELSE IF LessThan(maxJobsPerMessage, MinMaxJobs) \/ GreaterThan(maxJobsPerMessage, MaxMaxJobs)
       THEN 400
  ELSE 0

\* the rows table discord_configs can hold: a webhook URL that passed
\* isValidDiscordWebhook, the flag, and a maxJobsPerMessage within the range
StoredConfigs ==
  {[webhookUrl |-> [present |-> TRUE, host |-> h], enabled |-> e, maxJobsPerMessage |-> n] :
     h \in WebhookHosts, e \in BOOLEAN, n \in MinMaxJobs..MaxMaxJobs}

\* a GET /config that sends the stored row as it is
ConfigGetWholeRow(table, ok) ==
  LET config == getDiscordConfig(table, ok)
  IN IF config = <<>> THEN [status |-> 200, configured |-> FALSE]
     ELSE [status |-> 200, configured |-> TRUE, enabled |-> config[1].enabled,
           maxJobsPerMessage |-> config[1].maxJobsPerMessage,
           webhookUrl |-> config[1].webhookUrl]

\* GET /config: the body sent (createdAt and updatedAt, the two timestamps
\* of the row, are not modelled)
ConfigGet(table, ok) ==
  LET config == getDiscordConfig(table, ok)
  IN IF config = <<>> THEN [status |-> 200, configured |-> FALSE]
     ELSE [status |-> 200, configured |-> TRUE, enabled |-> config[1].enabled,
           maxJobsPerMessage |-> config[1].maxJobsPerMessage]

\* POST /config, answered 200: the config object of the body, built from
\* the row that create returned (timestamps not modelled)
ConfigPosted(config) ==
  [enabled |-> config.enabled, maxJobsPerMessage |-> config.maxJobsPerMessage]

\* request received and checked; when it passes, upsertDiscordConfig's
\* deleteMany is done.  A rejected request changes nothing.
ConfigPost(url, enabled, maxJobsPerMessage) ==
  /\ cfgReq = <<>>
  /\ IF ConfigRejection(url, maxJobsPerMessage) # 0
     THEN UNCHANGED <<configTbl, cfgReq>>
     ELSE /\ configTbl' = <<>>
          /\ cfgReq' = <<[webhookUrl |-> url, enabled |-> enabled,
                          maxJobsPerMessage |-> maxJobsPerMessage,
                          \* history: the table that deleteMany emptied
                          replaces |-> configTbl]>>
  /\ UNCHANGED <<probe, budget, kv, strikes, feedsTbl, doc, jobsTbl, durable, run, prev, started, faults>>

\* column maxJobsPerMessage is INTEGER NOT NULL: a row is built from
\* integer data only
Storable(data) == data.maxJobsPerMessage.number

\* upsertDiscordConfig's create; a failed create is rethrown (answer 500).
\* It fails on a storage fault, and on data the column cannot hold.
ConfigCreate(ok) ==
  /\ cfgReq # <<>>
  /\ IF Storable(cfgReq[1]) THEN ok \/ faults < budget.faults ELSE ~ok
  /\ configTbl' = IF ok
                  THEN <<[webhookUrl |-> cfgReq[1].webhookUrl, enabled |-> cfgReq[1].enabled,
                          maxJobsPerMessage |-> cfgReq[1].maxJobsPerMessage.value]>>
                  ELSE configTbl
  /\ cfgReq' = <<>>
  /\ faults' = IF ok \/ ~Storable(cfgReq[1]) THEN faults ELSE faults + 1
  /\ UNCHANGED <<probe, budget, kv, strikes, feedsTbl, doc, jobsTbl, durable, run, prev, started>>

\* ------------------------------------------------------------- processJobs
IdleRun ==
  [pc |-> "idle", error |-> <<>>, feeds |-> <<>>, todo |-> <<>>, i |-> 0,
   jobs |-> <<>>, j |-> 0, newJobs |-> <<>>, allNewJobs |-> <<>>,
   failedFeeds |-> <<>>, notificationSent |-> FALSE, notificationError |-> <<>>,
   maxJobs |-> 0,
   \* history of the run, not read by the code
   checked |-> <<>>, atNotify |-> <<>>, limit |-> 0,
   faulty |-> FALSE, fetched |-> {}, fetchFailed |-> {}, fetchedTripped |-> {},
   unsaved |-> {}, saveFailed |-> {}, storedBefore |-> {},
   origins |-> <<>>, posts |-> <<>>, inserted |-> {}, failedAtNotify |-> <<>>,
   \* jobs of the summary: the rows read by getRecentJobs
   previewJobs |-> {}]

\* what the checks of a run were given: a configuration or null, enabled or not
Checked(cfg) == [configured |-> cfg # <<>>, enabled |-> cfg # <<>> /\ cfg[1].enabled]

\* mutant of ConfigError: the enabled flag is not looked at
ConfigErrorIgnoresEnabled(cfg) ==
  IF cfg = <<>> THEN <<"Discord webhook must be configured before processing jobs">>
  ELSE <<>>

\* the checks on the configuration at the start of the run: the message of
\* the error thrown, or <<>>
ConfigError(cfg) ==
  IF cfg = <<>> THEN <<"Discord webhook must be configured before processing jobs">>
  ELSE IF ~cfg[1].enabled THEN <<"Discord notifications are disabled">>
  ELSE <<>>

FeedsError(feeds) == IF Len(feeds) = 0 THEN <<"No feeds configured">> ELSE <<>>

\* mutant of EnabledFeeds: the loop runs over every feed
EveryFeed(feeds) == feeds

\* feeds.filter(f => f.enabled !== false)
EnabledFeeds(feeds) == SelectSeq(feeds, LAMBDA f : f.enabled # FALSE)

\* the object returned by a run that did not throw (lines 76-85)
Summary(r) ==
  [processed |-> Len(SelectSeq(r.feeds, LAMBDA f : f.enabled)),
   newJobsFound |-> Len(r.allNewJobs),
   notificationSent |-> r.notificationSent,
   notificationError |-> r.notificationError,
   failedFeeds |-> r.failedFeeds,
   jobs |-> r.previewJobs,
   totalJobs |-> Len(r.allNewJobs)]

\* a run is over when it has returned its summary or thrown
Returned(r) == r.pc = "done" /\ r.error = <<>>
Threw(r) == r.pc = "done" /\ r.error # <<>>

\* what is remembered of a run once the next one starts
Digest(r) ==
  [completed |-> Returned(r), clean |-> ~r.faulty,
   fetched |-> r.fetched, newJobsFound |-> Len(r.allNewJobs),
   undelivered |-> UNION {{r.posts[n].embeds[k].hash : k \in 1..Len(r.posts[n].embeds)} :
                            n \in {m \in 1..Len(r.posts) : ~r.posts[m].ok}}]

NoRun == [completed |-> FALSE, clean |-> FALSE, fetched |-> {}, newJobsFound |-> 0,
          undelivered |-> {}]

Fault(r, ok) == [r EXCEPT !.faulty = @ \/ ~ok]

Start(p) ==
  /\ run[p].pc \in {"idle", "done"}
  /\ started < budget.runs
  /\ started' = started + 1
  /\ prev' = IF run[p].pc = "done" THEN Digest(run[p]) ELSE prev
  /\ run' = [run EXCEPT ![p] =
               [IdleRun EXCEPT !.pc = "config",
                               !.storedBefore = {row.hash : row \in jobsTbl}]]
  /\ UNCHANGED <<probe, budget, kv, strikes, feedsTbl, doc, jobsTbl, durable, configTbl, cfgReq, faults>>

\* lines 13-21: getDiscordConfig and the two checks on it
CheckConfig(p, ok) ==
  /\ run[p].pc = "config"
  /\ ok \/ faults < budget.faults
  /\ faults' = IF ok THEN faults ELSE faults + 1
  /\ LET cfg == getDiscordConfig(configTbl, ok)
         r == [Fault(run[p], ok) EXCEPT !.checked = <<Checked(cfg)>>]
         error == ConfigError(cfg)
     IN run' = [run EXCEPT ![p] =
                 IF error # <<>> THEN [r EXCEPT !.error = error, !.pc = "done"]
                 ELSE [r EXCEPT !.pc = "feeds"]]
  /\ UNCHANGED <<probe, budget, kv, strikes, feedsTbl, doc, jobsTbl, durable, configTbl, cfgReq, prev, started>>

\* mutant of ShouldNotify: the notifier is called whatever was found
ShouldNotifyAlways(allNewJobs) == TRUE

\* line 63: if (allNewJobs.length > 0)
ShouldNotify(allNewJobs) == Len(allNewJobs) > 0

\* where the run goes after the feed at position i: the next feed, or past
\* the loop to the notification (only when there are new jobs)
AfterFeed(r, i, allNewJobs) ==
  IF i < Len(r.todo) THEN "fetch"
  ELSE IF ShouldNotify(allNewJobs) THEN "notify" ELSE "recent"

\* lines 23-34: getAllFeeds, the check on it, and the loop header
LoadFeeds(p, ok) ==
  /\ run[p].pc = "feeds"
  /\ ok \/ faults < budget.faults
  /\ faults' = IF ok THEN faults ELSE faults + 1
  /\ LET feeds == getAllFeeds(feedsTbl, ok)
         error == FeedsError(feeds)
         r == [Fault(run[p], ok) EXCEPT !.feeds = feeds, !.todo = EnabledFeeds(feeds)]
     IN run' = [run EXCEPT ![p] =
                 IF error # <<>> THEN [r EXCEPT !.error = error, !.pc = "done"]
                 ELSE [r EXCEPT !.i = 1, !.pc = AfterFeed(r, 0, <<>>)]]
  /\ UNCHANGED <<probe, budget, kv, strikes, feedsTbl, doc, jobsTbl, durable, configTbl, cfgReq, prev, started>>

\* line 36: fetchRSS(feed).  An empty list leaves no new jobs, so the run
\* moves to the next feed; otherwise to the seen filter.
Fetch(p, ok, document) ==
  /\ run[p].pc = "fetch"
  /\ ok \/ faults < budget.faults
  /\ faults' = IF ok THEN faults ELSE faults + 1
  /\ LET r == Fault(run[p], ok)
         feed == r.todo[r.i]
         jobs == fetchRSS(document, ok)
         h == [r EXCEPT !.fetched = @ \cup {feed.name},
                        !.fetchedTripped = IF strikes[feed.name] > FailureThreshold
                                           THEN @ \cup {feed.name} ELSE @,
                        !.fetchFailed = IF ok THEN @ ELSE @ \cup {feed.name},
                        !.jobs = jobs, !.newJobs = <<>>]
     IN /\ IF doc[feed.name] = <<>> THEN document \in Docs
                                    ELSE document = doc[feed.name][1]
        /\ doc' = IF ok THEN [doc EXCEPT ![feed.name] = <<document>>] ELSE doc
        /\ strikes' = [strikes EXCEPT ![feed.name] =
                         IF ok THEN 0 ELSE Min(@ + 1, FailureThreshold + 1)]
        /\ run' = [run EXCEPT ![p] =
                    IF Len(jobs) = 0
                    THEN [h EXCEPT !.i = r.i + 1, !.pc = AfterFeed(r, r.i, r.allNewJobs)]
                    ELSE [h EXCEPT !.j = 1, !.pc = "seen"]]
  /\ UNCHANGED <<probe, budget, kv, feedsTbl, jobsTbl, durable, configTbl, cfgReq, prev, started>>

\* line 36 into fetchRSS lines 95-99: `await fetch(fetchUrl, {headers})`
\* carries no timeout and no abort signal, so with a source that never
\* answers the promise never settles: nothing is thrown, the catch of
\* fetchRSS is not reached, and processJobs stays at this await.
FetchPending(p) ==
  /\ run[p].pc = "fetch"
  /\ faults < budget.faults
  /\ faults' = faults + 1
  /\ run' = [run EXCEPT ![p] = [Fault(@, FALSE) EXCEPT !.pc = "waiting"]]
  /\ UNCHANGED <<probe, budget, kv, strikes, feedsTbl, doc, jobsTbl, durable, configTbl, cfgReq, prev, started>>

\* lines 41-46: one round of the filter loop, isJobSeen(db, job.hash)
Seen(p, ok) ==
  /\ run[p].pc = "seen"
  /\ ok \/ faults < budget.faults
  /\ faults' = IF ok THEN faults ELSE faults + 1
  /\ LET r == Fault(run[p], ok)
         job == r.jobs[r.j]
         newJobs == IF isJobSeen(jobsTbl, job.hash, ok) THEN r.newJobs
                    ELSE Append(r.newJobs, job)
         h == [r EXCEPT !.newJobs = newJobs]
     IN run' = [run EXCEPT ![p] =
                 IF r.j < Len(r.jobs) THEN [h EXCEPT !.j = r.j + 1]
                 ELSE IF Len(newJobs) > 0 THEN [h EXCEPT !.pc = "save"]
                 ELSE [h EXCEPT !.i = r.i + 1, !.pc = AfterFeed(r, r.i, r.allNewJobs)]]
  /\ UNCHANGED <<probe, budget, kv, strikes, feedsTbl, doc, jobsTbl, durable, configTbl, cfgReq, prev, started>>

\* a push that follows the save although the save threw
PushedAnyway(list, more, ok) == list \o more

\* lines 50-51: allNewJobs.push(...newJobs) comes after `await saveJobs`, so
\* a save that throws skips it
Pushed(list, more, ok) == IF ok THEN list \o more ELSE list

\* lines 48-56: saveJobs, then allNewJobs.push(...newJobs); a failed save
\* is caught at the feed and the feed's name pushed on failedFeeds
Save(p, ok) ==
  /\ run[p].pc = "save"
  /\ ok \/ faults < budget.faults
  /\ faults' = IF ok THEN faults ELSE faults + 1
  /\ LET r == Fault(run[p], ok)
         feed == r.todo[r.i]
         allNewJobs == Pushed(r.allNewJobs, r.newJobs, ok)
     IN /\ jobsTbl' = saveJobs(jobsTbl, r.newJobs, feed.name, ok)
        /\ durable' = IF ok THEN durable \cup {row.hash : row \in jobsTbl' \ jobsTbl}
                      ELSE durable
        /\ run' = [run EXCEPT ![p] =
                    [r EXCEPT !.allNewJobs = allNewJobs,
                              !.failedFeeds = IF ok THEN @ ELSE Append(@, feed.name),
                              !.unsaved = IF ok THEN @
                                          ELSE @ \cup {r.newJobs[k].hash : k \in 1..Len(r.newJobs)},
                              !.saveFailed = IF ok THEN @ ELSE @ \cup {feed.name},
                              !.origins = Pushed(@, [k \in 1..Len(r.newJobs) |-> feed.name], ok),
                              !.inserted = IF ok THEN @ \cup (jobsTbl' \ jobsTbl) ELSE @,
                              !.i = r.i + 1,
                              !.pc = AfterFeed(r, r.i, allNewJobs)]]
  /\ UNCHANGED <<probe, budget, kv, strikes, feedsTbl, doc, configTbl, cfgReq, prev, started>>

\* ------------------------------------------------- sendDiscordNotification
\* the check on the configuration read again by sendDiscordNotification
NotConfigured(cfg) ==
  IF cfg = <<>> \/ ~cfg[1].enabled
  THEN <<"Discord webhook not configured. Please set up Discord webhook first.">>
  ELSE <<>>

\* discordConfig.maxJobsPerMessage || 10
MaxJobsOf(config) ==
  IF config.maxJobsPerMessage = 0 THEN DefaultMaxJobs ELSE config.maxJobsPerMessage

\* mutant of jobsToSend: no slice, every job becomes an embed
jobsToSendAll(jobs, maxJobs) == jobs

\* jobs.slice(0, maxJobs): the jobs that become the embeds of the message
jobsToSend(jobs, maxJobs) == SubSeq(jobs, 1, Min(Len(jobs), maxJobs))

\* the message thrown for a non-success answer of the webhook, or <<>>
DeliveryError(ok) == IF ok THEN <<>> ELSE <<"Discord API error">>

\* mutant of Outcome: what the notifier threw is dropped
OutcomeDropsError(thrown) == [notificationSent |-> thrown = <<>>, notificationError |-> <<>>]

\* mutant of Outcome: the flag is set although the notifier threw
OutcomeSentAnyway(thrown) == [notificationSent |-> TRUE, notificationError |-> thrown]

\* processJobs' try/catch around sendDiscordNotification (lines 64-70):
\* the flag and the message the summary carries for a thrown message
Outcome(thrown) == [notificationSent |-> thrown = <<>>, notificationError |-> thrown]

\* lines 59-65 of processJobs and 54-62 of sendDiscordNotification: an
\* empty list returns true at once; else the configuration is read again
\* and a missing or disabled one is thrown
Notify(p, ok) ==
  /\ run[p].pc = "notify"
  /\ ok \/ faults < budget.faults
  /\ ok \/ Len(run[p].allNewJobs) > 0
  /\ faults' = IF ok THEN faults ELSE faults + 1
  /\ LET cfg == getDiscordConfig(configTbl, ok)
         r == [Fault(run[p], ok) EXCEPT !.failedAtNotify = run[p].failedFeeds,
                                        !.atNotify = IF Len(run[p].allNewJobs) = 0 THEN <<>>
                                                     ELSE <<Checked(cfg)>>]
         thrown == IF Len(r.allNewJobs) = 0 THEN <<>> ELSE NotConfigured(cfg)
     IN run' = [run EXCEPT ![p] =
                 IF Len(r.allNewJobs) = 0 \/ thrown # <<>>
                 THEN [r EXCEPT !.notificationSent = Outcome(thrown).notificationSent,
                                !.notificationError = Outcome(thrown).notificationError,
                                !.pc = "recent"]
                 ELSE [r EXCEPT !.limit = cfg[1].maxJobsPerMessage, !.maxJobs = MaxJobsOf(cfg[1]), !.pc = "post"]]
  /\ UNCHANGED <<probe, budget, kv, strikes, feedsTbl, doc, jobsTbl, durable, configTbl, cfgReq, prev, started>>

\* lines 64-93 of sendDiscordNotification: one POST to the webhook with the
\* embeds of jobsToSend; a non-success answer is thrown
Post(p, ok) ==
  /\ run[p].pc = "post"
  /\ ok \/ faults < budget.faults
  /\ faults' = IF ok THEN faults ELSE faults + 1
  /\ LET r == Fault(run[p], ok)
         embeds == jobsToSend(r.allNewJobs, r.maxJobs)
         thrown == DeliveryError(ok)
     IN run' = [run EXCEPT ![p] =
                 [r EXCEPT !.posts = Append(@, [embeds |-> embeds, ok |-> ok,
                                                limit |-> r.limit]),
                           !.notificationSent = Outcome(thrown).notificationSent,
                           !.notificationError = Outcome(thrown).notificationError,
                           !.pc = "recent"]]
  /\ UNCHANGED <<probe, budget, kv, strikes, feedsTbl, doc, jobsTbl, durable, configTbl, cfgReq, prev, started>>

\* lines 73-85: the preview read and the summary returned
Return(p, ok) ==
  /\ run[p].pc = "recent"
  /\ ok \/ faults < budget.faults
  /\ faults' = IF ok THEN faults ELSE faults + 1
  /\ \E previewJobs \in getRecentJobs(jobsTbl, PreviewLimit, ok) :
       run' = [run EXCEPT ![p] = [Fault(@, ok) EXCEPT !.previewJobs = previewJobs,
                                                     !.pc = "done"]]
  /\ UNCHANGED <<probe, budget, kv, strikes, feedsTbl, doc, jobsTbl, durable, configTbl, cfgReq, prev, started>>

\* ------------------------------------------- processJobs of the KV variant
\* src/api/src/feeds.ts.  Keys discord_config and feeds are configTbl and
\* feedsTbl here; key seen_jobs is kv.seen, a map from hash to processedAt.
KvIdle ==
  [pc |-> "idle", error |-> <<>>, feeds |-> <<>>, todo |-> <<>>, i |-> 0,
   seenJobs |-> <<>>, allNewJobs |-> <<>>, failedFeeds |-> <<>>,
   notificationSent |-> FALSE, notificationError |-> <<>>, maxJobs |-> 0,
   posts |-> <<>>]

NoKv == [seen |-> <<>>, clock |-> 0, ever |-> <<>>, run |-> [p \in Procs |-> KvIdle]]

\* fetchRSS of the KV variant: the same mapping, processedAt kept
KvFetchRSS(document, ok, now) ==
  IF ok
  THEN [k \in 1..Len(document) |->
         [id |-> JobOf(document[k]).id, title |-> JobOf(document[k]).title,
          link |-> JobOf(document[k]).link, hash |-> JobOf(document[k]).hash,
          processedAt |-> now]]
  ELSE <<>>

\* seenJobs[job.hash] = job.processedAt
Mark(seenJobs, job) ==
  [h \in DOMAIN seenJobs \cup {job.hash} |->
    IF h = job.hash THEN job.processedAt ELSE seenJobs[h]]

\* newJobs.forEach(job => { seenJobs[job.hash] = job.processedAt })
RECURSIVE MarkAll(_, _)
MarkAll(seenJobs, jobs) ==
  IF jobs = <<>> THEN seenJobs ELSE MarkAll(Mark(seenJobs, Head(jobs)), Tail(jobs))

KvAfterFeed(r, i, allNewJobs) == IF i < Len(r.todo) THEN "fetch" ELSE "put"

KvStart(p) ==
  /\ kv.run[p].pc \in {"idle", "done"}
  /\ started < budget.runs
  /\ started' = started + 1
  /\ kv' = [kv EXCEPT !.run[p] = [KvIdle EXCEPT !.pc = "config"]]
  /\ UNCHANGED <<feedsTbl, doc, jobsTbl, durable, configTbl, cfgReq, run, prev, faults,
                 probe, budget, strikes>>

\* lines 176-183: getDiscordConfig and the two checks
KvCheckConfig(p, ok) ==
  /\ kv.run[p].pc = "config"
  /\ ok \/ faults < budget.faults
  /\ faults' = IF ok THEN faults ELSE faults + 1
  /\ LET error == ConfigError(getDiscordConfig(configTbl, ok))
     IN kv' = [kv EXCEPT !.run[p] =
                 IF error # <<>> THEN [@ EXCEPT !.error = error, !.pc = "done"]
                 ELSE [@ EXCEPT !.pc = "feeds"]]
  /\ UNCHANGED <<feedsTbl, doc, jobsTbl, durable, configTbl, cfgReq, run, prev, started,
                 probe, budget, strikes>>

\* lines 186-190: getAllFeeds (KV.get, not caught) and the check
KvLoadFeeds(p, ok) ==
  /\ kv.run[p].pc = "feeds"
  /\ ok \/ faults < budget.faults
  /\ faults' = IF ok THEN faults ELSE faults + 1
  /\ LET error == IF ok THEN FeedsError(feedsTbl) ELSE <<"KV get failed">>
     IN kv' = [kv EXCEPT !.run[p] =
                 IF error # <<>> THEN [@ EXCEPT !.error = error, !.pc = "done"]
                 ELSE [@ EXCEPT !.feeds = feedsTbl, !.todo = EnabledFeeds(feedsTbl),
                                !.pc = "seen"]]
  /\ UNCHANGED <<feedsTbl, doc, jobsTbl, durable, configTbl, cfgReq, run, prev, started,
                 probe, budget, strikes>>

\* lines 193-200: KV.get('seen_jobs') into the local seenJobs, loop header
KvGetSeen(p, ok) ==
  /\ kv.run[p].pc = "seen"
  /\ ok \/ faults < budget.faults
  /\ faults' = IF ok THEN faults ELSE faults + 1
  /\ kv' = [kv EXCEPT !.run[p] =
              IF ok THEN [@ EXCEPT !.seenJobs = kv.seen, !.i = 1,
                                   !.pc = KvAfterFeed(kv.run[p], 0, <<>>)]
              ELSE [@ EXCEPT !.error = <<"KV get failed">>, !.pc = "done"]]
  /\ UNCHANGED <<feedsTbl, doc, jobsTbl, durable, configTbl, cfgReq, run, prev, started,
                 probe, budget, strikes>>

\* lines 200-216: one feed: fetchRSS, the filter on seenJobs, the push and
\* the marks in the local seenJobs
KvFetch(p, ok, document) ==
  /\ kv.run[p].pc = "fetch"
  /\ ok \/ faults < budget.faults
  /\ faults' = IF ok THEN faults ELSE faults + 1
  /\ LET r == kv.run[p]
         feed == r.todo[r.i]
         jobs == KvFetchRSS(document, ok, kv.clock + 1)
         newJobs == SelectSeq(jobs, LAMBDA job : job.hash \notin DOMAIN r.seenJobs)
     IN /\ IF doc[feed.name] = <<>> THEN document \in Docs
                                    ELSE document = doc[feed.name][1]
        /\ doc' = IF ok THEN [doc EXCEPT ![feed.name] = <<document>>] ELSE doc
        /\ kv' = [kv EXCEPT !.clock = @ + 1,
                            !.run[p] = [r EXCEPT !.allNewJobs = @ \o newJobs,
                                                 !.seenJobs = MarkAll(@, newJobs),
                                                 !.i = r.i + 1,
                                                 !.pc = KvAfterFeed(r, r.i, <<>>)]]
  /\ UNCHANGED <<feedsTbl, jobsTbl, durable, configTbl, cfgReq, run, prev, started,
                 probe, budget, strikes>>

\* line 219: KV.put('seen_jobs', seenJobs); a failed put is thrown by
\* processJobs.  kv.ever keeps, per hash, the processedAt first written.
KvPut(p, ok) ==
  /\ kv.run[p].pc = "put"
  /\ ok \/ faults < budget.faults
  /\ faults' = IF ok THEN faults ELSE faults + 1
  /\ LET r == kv.run[p]
     IN kv' = IF ok
              THEN [kv EXCEPT !.seen = r.seenJobs,
                              !.ever = [h \in DOMAIN kv.ever \cup DOMAIN r.seenJobs |->
                                         IF h \in DOMAIN kv.ever THEN kv.ever[h]
                                         ELSE r.seenJobs[h]],
                              !.run[p].pc = IF ShouldNotify(r.allNewJobs) THEN "notify"
                                            ELSE "done"]
              ELSE [kv EXCEPT !.run[p].error = <<"KV put failed">>, !.run[p].pc = "done"]
  /\ UNCHANGED <<feedsTbl, doc, jobsTbl, durable, configTbl, cfgReq, run, prev, started,
                 probe, budget, strikes>>

\* lines 225-227 and sendDiscordNotification (lines 22-28) up to its check
KvNotify(p, ok) ==
  /\ kv.run[p].pc = "notify"
  /\ ok \/ faults < budget.faults
  /\ faults' = IF ok THEN faults ELSE faults + 1
  /\ LET cfg == getDiscordConfig(configTbl, ok)
         thrown == NotConfigured(cfg)
     IN kv' = [kv EXCEPT !.run[p] =
                 IF thrown # <<>>
                 THEN [@ EXCEPT !.notificationSent = Outcome(thrown).notificationSent,
                                !.notificationError = Outcome(thrown).notificationError,
                                !.pc = "done"]
                 ELSE [@ EXCEPT !.maxJobs = MaxJobsOf(cfg[1]), !.pc = "post"]]
  /\ UNCHANGED <<feedsTbl, doc, jobsTbl, durable, configTbl, cfgReq, run, prev, started,
                 probe, budget, strikes>>

\* the POST of sendDiscordNotification (lines 30-55), then lines 228-244
KvPost(p, ok) ==
  /\ kv.run[p].pc = "post"
  /\ ok \/ faults < budget.faults
  /\ faults' = IF ok THEN faults ELSE faults + 1
  /\ LET thrown == DeliveryError(ok)
     IN kv' = [kv EXCEPT !.run[p] =
                 [@ EXCEPT !.posts = Append(@, jobsToSend(kv.run[p].allNewJobs,
                                                          kv.run[p].maxJobs)),
                           !.notificationSent = Outcome(thrown).notificationSent,
                           !.notificationError = Outcome(thrown).notificationError,
                           !.pc = "done"]]
  /\ UNCHANGED <<feedsTbl, doc, jobsTbl, durable, configTbl, cfgReq, run, prev, started,
                 probe, budget, strikes>>

\* ------------------------------------------------- pure functions, directly
NoProbe == [op |-> "none", text |-> <<>>, out |-> <<>>, item |-> <<>>, job |-> <<>>,
            before |-> <<>>, response |-> <<>>, configs |-> <<>>, bodies |-> <<>>]

\* generateHash(text), called on its own
CallGenerateHash(text) ==
  /\ probe' = [NoProbe EXCEPT !.op = "generateHash", !.text = text,
                              !.out = generateHash(text)]
  /\ UNCHANGED <<feedsTbl, doc, jobsTbl, durable, configTbl, cfgReq, run, prev, started,
                 faults, budget, strikes, kv>>

\* the callback of itemsArray.map in fetchRSS, applied to one item; the item
\* and the job of the call before are kept beside it
MapItem(item) ==
  /\ probe' = [NoProbe EXCEPT !.op = "map", !.item = <<item>>, !.job = <<JobOf(item)>>,
                              !.before = IF probe.op = "map"
                                         THEN <<[item |-> probe.item[1], job |-> probe.job[1]]>>
                                         ELSE <<>>]
  /\ UNCHANGED <<feedsTbl, doc, jobsTbl, durable, configTbl, cfgReq, run, prev, started,
                 faults, budget, strikes, kv>>

\* fetchRSS, called on its own with the answer of the source
CallFetchRSS(response) ==
  /\ probe' = [NoProbe EXCEPT !.op = "fetchRSS", !.response = <<response>>,
                              !.out = fetchRSSOn(response)]
  /\ UNCHANGED <<feedsTbl, doc, jobsTbl, durable, configTbl, cfgReq, run, prev, started,
                 faults, budget, strikes, kv>>

\* GET /config and the answer of POST /config, each taken once with row
\* config stored and once with the same row under another webhook URL
CallConfigRoutes(config, host, ok) ==
  LET other == [config EXCEPT !.webhookUrl = [present |-> TRUE, host |-> host]]
  IN /\ probe' = [NoProbe EXCEPT !.op = "config", !.configs = <<config, other>>,
                                 !.bodies = <<[get |-> ConfigGet(<<config>>, ok),
                                               post |-> ConfigPosted(config)],
                                              [get |-> ConfigGet(<<other>>, ok),
                                               post |-> ConfigPosted(other)]>>]
     /\ UNCHANGED <<feedsTbl, doc, jobsTbl, durable, configTbl, cfgReq, run, prev, started,
                    faults, budget, strikes, kv>>

\* ----------------------------------------------------------- specification
\* the feeds table: up to MaxFeeds rows, each enabled or not
FeedTables ==
  UNION {[1..n -> BOOLEAN] : n \in 0..MaxFeeds}

Init ==
  /\ \E flags \in FeedTables :
       feedsTbl = [k \in 1..Len(flags) |-> [name |-> FeedNames[k], enabled |-> flags[k]]]
  /\ doc = [n \in {FeedNames[k] : k \in 1..Len(FeedNames)} |-> <<>>]
  /\ jobsTbl = {}
  /\ durable = {}
  /\ configTbl = <<>>
  /\ cfgReq = <<>>
  /\ run = [p \in Procs |-> IdleRun]
  /\ prev = NoRun
  /\ started = 0
  /\ faults = 0
  /\ probe = NoProbe
  /\ budget = [runs |-> MaxRuns, faults |-> MaxFaults]
  /\ strikes = [n \in {FeedNames[k] : k \in 1..Len(FeedNames)} |-> 0]
  /\ kv = NoKv

\* one caller at a time: the runs of a behaviour follow one another
Caller == "manual"

\* A run reads the configuration twice, in CheckConfig and in Notify, and
\* nothing else of a run depends on it: a config request served between the
\* two reads acts as one served just before the second.  So Next takes the
\* steps of config requests only while the caller is outside a run or about
\* to read the configuration.
ConfigTurn == run[Caller].pc \in {"idle", "done", "config", "notify"}

Next ==
  \/ ConfigTurn /\ \E url \in ReqUrls, enabled \in BOOLEAN, k \in ReqMaxJobs :
                     ConfigPost(url, enabled, k)
  \/ ConfigTurn /\ \E ok \in BOOLEAN : ConfigCreate(ok)
  \/ Start(Caller)
  \/ \E ok \in BOOLEAN : CheckConfig(Caller, ok)
  \/ \E ok \in BOOLEAN : LoadFeeds(Caller, ok)
  \/ \E ok \in BOOLEAN, document \in Docs : Fetch(Caller, ok, document)
  \/ FetchPending(Caller)
  \/ \E ok \in BOOLEAN : Seen(Caller, ok)
  \/ \E ok \in BOOLEAN : Save(Caller, ok)
  \/ \E ok \in BOOLEAN : Notify(Caller, ok)
  \/ \E ok \in BOOLEAN : Post(Caller, ok)
  \/ \E ok \in BOOLEAN : Return(Caller, ok)

Spec == Init /\ [][Next]_vars

\* the scheduled handler alone: run after run of processJobs on every cron
\* tick, over one enabled feed, with a configuration stored and enabled and
\* nobody changing it; long enough for the feed to fail FailureThreshold + 1
\* times in a row and be due once more
CronInit ==
  /\ feedsTbl = <<[name |-> FeedNames[1], enabled |-> TRUE]>>
  /\ doc = [n \in {FeedNames[k] : k \in 1..Len(FeedNames)} |-> <<>>]
  /\ jobsTbl = {}
  /\ durable = {}
  /\ configTbl = <<[webhookUrl |-> [present |-> TRUE, host |-> "discord.com"],
                    enabled |-> TRUE, maxJobsPerMessage |-> DefaultMaxJobs]>>
  /\ cfgReq = <<>>
  /\ run = [p \in Procs |-> IdleRun]
  /\ prev = NoRun
  /\ started = 0
  /\ faults = 0
  /\ probe = NoProbe
  /\ budget = [runs |-> FailureThreshold + 2, faults |-> FailureThreshold + 1]
  /\ strikes = [n \in {FeedNames[k] : k \in 1..Len(FeedNames)} |-> 0]
  /\ kv = NoKv

\* storage and webhook answer; a feed source may fail at any fetch
CronNext ==
  \/ Start("cron")
  \/ CheckConfig("cron", TRUE)
  \/ LoadFeeds("cron", TRUE)
  \/ \E ok \in BOOLEAN, document \in Docs : Fetch("cron", ok, document)
  \/ Seen("cron", TRUE)
  \/ Save("cron", TRUE)
  \/ Notify("cron", TRUE)
  \/ Post("cron", TRUE)
  \/ Return("cron", TRUE)

CronSpec == CronInit /\ [][CronNext]_vars

\* both triggers of the Prisma variant: the cron trigger and POST /process
\* each run processJobs, and a run of one may overlap a run of the other
\* (a Worker serves events concurrently; every await lets another in).  A
\* configuration is stored and enabled and nobody changes it.
OverlapInit ==
  /\ \E n \in 1..MaxFeeds :
       feedsTbl = [k \in 1..n |-> [name |-> FeedNames[k], enabled |-> TRUE]]
  /\ doc = [n \in {FeedNames[k] : k \in 1..Len(FeedNames)} |-> <<>>]
  /\ jobsTbl = {}
  /\ durable = {}
  /\ configTbl = <<[webhookUrl |-> [present |-> TRUE, host |-> "discord.com"],
                    enabled |-> TRUE, maxJobsPerMessage |-> DefaultMaxJobs]>>
  /\ cfgReq = <<>>
  /\ run = [p \in Procs |-> IdleRun]
  /\ prev = NoRun
  /\ started = 0
  /\ faults = 0
  /\ probe = NoProbe
  /\ budget = [runs |-> MaxRuns, faults |-> MaxFaults]
  /\ strikes = [n \in {FeedNames[k] : k \in 1..Len(FeedNames)} |-> 0]
  /\ kv = NoKv

OverlapNext ==
  \E p \in Procs :
    \/ Start(p)
    \/ \E ok \in BOOLEAN : CheckConfig(p, ok)
    \/ \E ok \in BOOLEAN : LoadFeeds(p, ok)
    \/ \E ok \in BOOLEAN, document \in Docs : Fetch(p, ok, document)
    \/ \E ok \in BOOLEAN : Seen(p, ok)
    \/ \E ok \in BOOLEAN : Save(p, ok)
    \/ \E ok \in BOOLEAN : Notify(p, ok)
    \/ \E ok \in BOOLEAN : Post(p, ok)
    \/ \E ok \in BOOLEAN : Return(p, ok)

OverlapSpec == OverlapInit /\ [][OverlapNext]_vars

\* the KV variant under both triggers: the cron trigger and POST /process
\* each run processJobs, and a run of one may overlap a run of the other
\* (a Worker serves events concurrently; every await lets another in)
KvInit ==
  /\ \E n \in 1..MaxFeeds :
       feedsTbl = [k \in 1..n |-> [name |-> FeedNames[k], enabled |-> TRUE]]
  /\ doc = [n \in {FeedNames[k] : k \in 1..Len(FeedNames)} |-> <<>>]
  /\ jobsTbl = {}
  /\ durable = {}
  /\ configTbl = <<[webhookUrl |-> [present |-> TRUE, host |-> "discord.com"],
                    enabled |-> TRUE, maxJobsPerMessage |-> DefaultMaxJobs]>>
  /\ cfgReq = <<>>
  /\ run = [p \in Procs |-> IdleRun]
  /\ prev = NoRun
  /\ started = 0
  /\ faults = 0
  /\ probe = NoProbe
  /\ budget = [runs |-> MaxRuns, faults |-> MaxFaults]
  /\ strikes = [n \in {FeedNames[k] : k \in 1..Len(FeedNames)} |-> 0]
  /\ kv = NoKv

KvNext ==
  \E p \in Procs :
    \/ KvStart(p)
    \/ \E ok \in BOOLEAN : KvCheckConfig(p, ok)
    \/ \E ok \in BOOLEAN : KvLoadFeeds(p, ok)
    \/ \E ok \in BOOLEAN : KvGetSeen(p, ok)
    \/ \E ok \in BOOLEAN, document \in Docs : KvFetch(p, ok, document)
    \/ \E ok \in BOOLEAN : KvPut(p, ok)
    \/ \E ok \in BOOLEAN : KvNotify(p, ok)
    \/ \E ok \in BOOLEAN : KvPost(p, ok)

KvSpec == KvInit /\ [][KvNext]_vars

\* the pure functions called directly, on inputs of their own; the tables
\* are empty and no run is started
PureInit ==
  /\ feedsTbl = <<>>
  /\ doc = [n \in {FeedNames[k] : k \in 1..Len(FeedNames)} |-> <<>>]
  /\ jobsTbl = {}
  /\ durable = {}
  /\ configTbl = <<>>
  /\ cfgReq = <<>>
  /\ run = [p \in Procs |-> IdleRun]
  /\ prev = NoRun
  /\ started = 0
  /\ faults = 0
  /\ probe = NoProbe
  /\ budget = [runs |-> MaxRuns, faults |-> MaxFaults]
  /\ strikes = [n \in {FeedNames[k] : k \in 1..Len(FeedNames)} |-> 0]
  /\ kv = NoKv

PureNext ==
  \/ \E text \in Texts : CallGenerateHash(text)
  \/ \E item \in Entries \cup LongItems : MapItem(item)
  \/ \E response \in Responses : CallFetchRSS(response)
  \/ \E config \in StoredConfigs, host \in WebhookHosts, ok \in BOOLEAN :
       CallConfigRoutes(config, host, ok)

PureSpec == PureInit /\ [][PureNext]_vars

\* ------------------------------------------------------------------ claims

\* the batches of a run, concatenated in dispatch order
RECURSIVE Dispatched(_)
Dispatched(posts) ==
  IF posts = <<>> THEN <<>> ELSE Head(posts).embeds \o Dispatched(Tail(posts))

\* a run and the one before it both returned a summary, met no fault of any
\* kind, and fetched the same feeds (each feed serves one document throughout)
Rerun(r) ==
  /\ Returned(r) /\ ~r.faulty
  /\ prev.completed /\ prev.clean /\ prev.fetched = r.fetched

\* C1 (as claimed): a run that follows a completed run over the same
\* documents finds no new posting and sends no notification.
C1_SecondRunFindsNothing ==
  \A p \in Procs :
    Rerun(run[p]) => Summary(run[p]).newJobsFound = 0 /\ run[p].posts = <<>>

\* C2 (as claimed): the name of every feed whose fetch failed in a run is in
\* the failedFeeds list of the summary the run returns.
C2_FailedFetchIsReported ==
  \A p \in Procs :
    Returned(run[p]) => run[p].fetchFailed \subseteq Range(Summary(run[p]).failedFeeds)

\* C3 (as claimed): the batches dispatched in a run that notified,
\* concatenated in dispatch order, are the list of the run's new postings.
C3_BatchesCoverNewJobs ==
  \A p \in Procs :
    Returned(run[p]) /\ run[p].notificationSent
      => Dispatched(run[p].posts) = run[p].allNewJobs

\* the fingerprints of the postings the feeds can serve
AllHashes == {JobOf(item).hash : item \in Entries}

\* C4: write-then-mark.  The seen-check answers true only for the
\* fingerprint of a posting that a saveJobs call which returned has stored;
\* so the fingerprints a failed save was given are not seen, in that run or
\* in the next, unless a save that succeeded has stored them.
C4_SeenOnlyIfSaved ==
  \A h \in AllHashes, ok \in BOOLEAN : isJobSeen(jobsTbl, h, ok) => h \in durable

\* a run whose save failed has ended and none of the fingerprints given to
\* that save is seen
C4_Witness ==
  \E p \in Procs :
    /\ run[p].pc = "done" /\ run[p].unsaved # {}
    /\ \A h \in run[p].unsaved : ~isJobSeen(jobsTbl, h, TRUE)

\* C5 (as claimed): in a run without faults no posting of a later feed with
\* the link and title of a posting kept from an earlier feed is counted again.
C5_CountedOnce ==
  \A p \in Procs :
    Returned(run[p]) /\ ~run[p].faulty =>
      \A i, j \in 1..Len(run[p].allNewJobs) :
        i < j /\ run[p].origins[i] # run[p].origins[j]
          => ~(/\ run[p].allNewJobs[i].link = run[p].allNewJobs[j].link
               /\ run[p].allNewJobs[i].title = run[p].allNewJobs[j].title)

DeliveryFailed(r) == \E k \in 1..Len(r.posts) : ~r.posts[k].ok

\* C6: once the webhook has answered the POST with a non-success status the
\* run goes on to return a summary with notificationSent = false and a
\* notificationError, the rows it stored are still stored, and failedFeeds
\* is what it was before the notification.
C6_DeliveryFailureRecovered ==
  \A p \in Procs :
    DeliveryFailed(run[p]) =>
      /\ run[p].pc \in {"recent", "done"} /\ run[p].error = <<>>
      /\ run[p].pc = "recent" => ENABLED Return(p, TRUE)
      /\ ~Summary(run[p]).notificationSent
      /\ Summary(run[p]).notificationError # <<>>
      /\ run[p].inserted \subseteq jobsTbl
      /\ Summary(run[p]).failedFeeds = run[p].failedAtNotify

C6_Witness ==
  \E p \in Procs :
    Returned(run[p]) /\ DeliveryFailed(run[p]) /\ run[p].inserted # {}

\* C7: a run that read an absent or disabled configuration, or an empty
\* feed list, has thrown; and a run that has thrown fetched no feed, stored
\* no row and posted nothing.
C7_FailFast ==
  \A p \in Procs :
    /\ run[p].pc \notin {"idle", "config"}
         /\ (~run[p].checked[1].configured \/ ~run[p].checked[1].enabled) => Threw(run[p])
    /\ run[p].pc \notin {"idle", "config", "feeds"} /\ run[p].feeds = <<>> => Threw(run[p])
    /\ Threw(run[p]) =>
         /\ run[p].fetched = {} /\ run[p].allNewJobs = <<>>
         /\ run[p].inserted = {} /\ run[p].posts = <<>>

\* a run has thrown on a disabled configuration while feeds are configured
C7_Witness ==
  \E p \in Procs :
    /\ Threw(run[p]) /\ run[p].checked[1].configured /\ ~run[p].checked[1].enabled
    /\ \E k \in 1..Len(feedsTbl) : feedsTbl[k].enabled

NoNewJobs(s) ==
  s.newJobsFound = 0 /\ ~s.notificationSent /\ s.notificationError = <<>>
NotNotified(s) ==
  s.newJobsFound > 0 /\ ~s.notificationSent /\ s.notificationError # <<>>
Notified(s) ==
  s.newJobsFound > 0 /\ s.notificationSent /\ s.notificationError = <<>>

\* C8: every summary returned is of one of the three outcomes (which
\* exclude each other): nothing new, new but not notified, new and notified.
C8_ThreeOutcomes ==
  \A p \in Procs :
    Returned(run[p]) =>
      \/ NoNewJobs(Summary(run[p]))
      \/ NotNotified(Summary(run[p]))
      \/ Notified(Summary(run[p]))

\* new postings were found and the configuration had gone by the time of
\* the notification
C8_Witness ==
  \E p \in Procs :
    Returned(run[p]) /\ NotNotified(Summary(run[p])) /\ run[p].posts = <<>>

\* C9: every POST to the webhook carries at least one posting, at most the
\* maxJobsPerMessage of the configuration it was sent under, and at most 10.
C9_BatchBound ==
  \A p \in Procs :
    \A k \in 1..Len(run[p].posts) :
      /\ Len(run[p].posts[k].embeds) >= 1
      /\ Len(run[p].posts[k].embeds) <= run[p].posts[k].limit
      /\ Len(run[p].posts[k].embeds) <= MaxMaxJobs

\* a POST filled to the maximum while more new postings were found
C9_Witness ==
  \E p \in Procs :
    \E k \in 1..Len(run[p].posts) :
      /\ Len(run[p].posts[k].embeds) = run[p].posts[k].limit
      /\ Len(run[p].allNewJobs) > Len(run[p].posts[k].embeds)

\* the items of the documents served so far
Served == UNION {Range(doc[n][1]) : n \in {m \in DOMAIN doc : doc[m] # <<>>}}

\* C10 (as claimed): two postings whose (link, title) pairs differ give the
\* hash different input strings.
C10_DistinctPairsDistinctInputs ==
  \A a, b \in Served :
    a.link # b.link \/ a.title # b.title => HashInput(a) # HashInput(b)

\* 31 * h + char modulo 2^32, on a word kept as four bytes, least
\* significant first
FoldStep(b, char) ==
  LET s1 == HashMul * b[1] + char
      s2 == HashMul * b[2] + (s1 \div 256)
      s3 == HashMul * b[3] + (s2 \div 256)
      s4 == HashMul * b[4] + (s3 \div 256)
  IN <<s1 % 256, s2 % 256, s3 % 256, s4 % 256>>

RECURSIVE Fold(_, _)
Fold(b, text) ==
  IF text = <<>> THEN b ELSE Fold(FoldStep(b, Head(text)), Tail(text))

\* the two's-complement value of four bytes
Signed(b) ==
  (IF b[4] >= 128 THEN b[4] - 256 ELSE b[4]) * 16777216
    + b[3] * 65536 + b[2] * 256 + b[1]

\* a decimal numeral: digits without a leading zero, "-" before a non-zero one
IsDecimal(s) ==
  LET digits == IF s # <<>> /\ Head(s) = 45 THEN Tail(s) ELSE s
  IN /\ digits # <<>>
     /\ \A k \in 1..Len(digits) : digits[k] \in 48..57
     /\ Len(digits) > 1 => digits[1] # 48
     /\ Head(s) = 45 => digits[1] # 48

\* the value of a numeral; a negative one is summed downwards
RECURSIVE ValueOf(_, _, _)
ValueOf(acc, sign, digits) ==
  IF digits = <<>> THEN acc
  ELSE ValueOf(10 * acc + sign * (Head(digits) - 48), sign, Tail(digits))

ParseDecimal(s) ==
  IF Head(s) = 45 THEN ValueOf(0, -1, Tail(s)) ELSE ValueOf(0, 1, s)

C12_TrippedFeedNotFetched ==
  \A p \in Procs : run[p].fetchedTripped = {}

\* the configuration read by sendDiscordNotification was null or disabled
NotConfiguredAtNotify(r) ==
  r.atNotify # <<>> /\ (~r.atNotify[1].configured \/ ~r.atNotify[1].enabled)

\* C13: a run with new postings whose notifier read a missing or disabled
\* configuration posts nothing, goes on to return a summary with
\* notificationSent = false and a notificationError, and the rows it stored
\* are still stored.
C13_NotConfiguredSurfaced ==
  \A p \in Procs :
    NotConfiguredAtNotify(run[p]) =>
      /\ run[p].pc \in {"recent", "done"} /\ run[p].error = <<>>
      /\ run[p].pc = "recent" => ENABLED Return(p, TRUE)
      /\ Summary(run[p]).newJobsFound > 0
      /\ ~Summary(run[p]).notificationSent
      /\ Summary(run[p]).notificationError # <<>>
      /\ run[p].posts = <<>>
      /\ run[p].inserted \subseteq jobsTbl

\* the configuration was enabled at the start of the run and stored but
\* disabled at the notification, and the run has returned with rows stored
C13_Witness ==
  \E p \in Procs :
    /\ Returned(run[p]) /\ run[p].checked[1].enabled
    /\ run[p].atNotify # <<>> /\ run[p].atNotify[1].configured
    /\ ~run[p].atNotify[1].enabled
    /\ run[p].inserted # {}

\* C14 (as claimed): a fingerprint once written to the seen ledger is in
\* the ledger ever after, with the timestamp first written for it.
C14_LedgerOnlyGrows ==
  \A h \in DOMAIN kv.ever : h \in DOMAIN kv.seen /\ kv.seen[h] = kv.ever[h]

\* C15: table jobs never holds two rows with one fingerprint, runs of
\* the two triggers overlapping or not.
C15_OneRowPerHash ==
  \A a, b \in jobsTbl : a.hash = b.hash => a = b

\* two overlapping runs both kept a posting as new and both saved it; the
\* row stored is the one of the run that saved first
C15_Witness ==
  \E p, q \in Procs :
    /\ p # q
    /\ \E row \in run[q].inserted, k \in 1..Len(run[p].allNewJobs) :
         /\ run[p].allNewJobs[k].hash = row.hash
         /\ run[p].origins[k] # row.feedId
         /\ row \in jobsTbl

\* C16 (as claimed): a request whose maxJobsPerMessage is not within 1..10,
\* or whose webhookUrl is missing or not a Discord one, is answered 400
\* before upsertDiscordConfig is called, so it never deletes or stores
\* anything; and a stored maxJobsPerMessage is within 1..10.
C16_BadRequestRejected ==
  /\ cfgReq # <<>> =>
       /\ cfgReq[1].webhookUrl.present /\ isValidDiscordWebhook(cfgReq[1].webhookUrl)
       /\ cfgReq[1].maxJobsPerMessage.number
       /\ cfgReq[1].maxJobsPerMessage.value \in MinMaxJobs..MaxMaxJobs
  /\ configTbl # <<>> => configTbl[1].maxJobsPerMessage \in MinMaxJobs..MaxMaxJobs

IsPrefixOf(s, t, n) ==
  /\ Len(s) = Min(Len(t), n)
  /\ \A k \in 1..Len(s) : s[k] = t[k]

KeptOf(r, f) == {r.allNewJobs[k].hash : k \in {i \in 1..Len(r.allNewJobs) : r.origins[i] = f}}

\* C18 (as claimed): when a run has returned, for each feed it saved either
\* every posting kept for the feed is stored, or the run wrote no row for
\* that feed.
C18_FeedUnitAtomic ==
  \A p \in Procs :
    Returned(run[p]) =>
      \A f \in Range(run[p].origins) :
        \/ \A h \in KeptOf(run[p], f) : \E row \in jobsTbl : row.hash = h
        \/ \A row \in run[p].inserted : row.feedId # f

\* the feeds of a run whose postings reached a notification
NotifiedFeeds(r) ==
  {r.origins[k] : k \in UNION {1..Len(r.posts[n].embeds) : n \in 1..Len(r.posts)}}

\* C19: a feed whose save failed is named in failedFeeds, none of its
\* postings is counted or notified, and the run goes on: it does not throw,
\* and when it has returned every enabled feed was fetched.
C19_SaveFailureContained ==
  \A p \in Procs :
    \A f \in run[p].saveFailed :
      /\ f \in Range(run[p].failedFeeds)
      /\ f \notin Range(run[p].origins)
      /\ f \notin NotifiedFeeds(run[p])
      /\ Len(run[p].origins) = Len(run[p].allNewJobs)
      /\ ~Threw(run[p])
      /\ Returned(run[p]) =>
           /\ run[p].fetched = {run[p].todo[k].name : k \in 1..Len(run[p].todo)}
           /\ Summary(run[p]).newJobsFound = Len(run[p].allNewJobs)

\* a run has returned in which the first feed's save failed and a later
\* feed's postings were saved, counted and notified
C19_Witness ==
  \E p \in Procs :
    /\ Returned(run[p])
    /\ Len(run[p].todo) > 1
    /\ run[p].todo[1].name \in run[p].saveFailed
    /\ run[p].todo[2].name \in NotifiedFeeds(run[p])

\* the next step of processJobs for caller p, whatever the outcome of the
\* call it makes
RunStep(p) ==
  \/ \E ok \in BOOLEAN : CheckConfig(p, ok)
  \/ \E ok \in BOOLEAN : LoadFeeds(p, ok)
  \/ \E ok \in BOOLEAN, document \in Docs : Fetch(p, ok, document)
  \/ \E ok \in BOOLEAN : Seen(p, ok)
  \/ \E ok \in BOOLEAN : Save(p, ok)
  \/ \E ok \in BOOLEAN : Notify(p, ok)
  \/ \E ok \in BOOLEAN : Post(p, ok)
  \/ \E ok \in BOOLEAN : Return(p, ok)

\* C20 (as claimed): a started run terminates, also when a feed source never
\* answers.  A run that has neither returned nor thrown always has a next
\* step to take: it is never left waiting for a source for good.
C20_RunNeverStuck ==
  \A p \in Procs :
    run[p].pc \notin {"idle", "done"} => ENABLED RunStep(p)

\* C21 (as claimed): the preview of a returned run holds at most
\* PreviewLimit postings, each a new posting found by that run, and is empty
\* when the run found none.
C21_PreviewOfNewJobs ==
  \A p \in Procs :
    Returned(run[p]) =>
      LET s == Summary(run[p])
      IN /\ Cardinality(s.jobs) <= PreviewLimit
         /\ \A row \in s.jobs : \E k \in 1..Len(run[p].allNewJobs) :
                                   run[p].allNewJobs[k].hash = row.hash
         /\ s.newJobsFound = 0 => s.jobs = {}

InProgress(r) == r.pc \notin {"idle", "done"}

Counted(r) == {r.allNewJobs[k].hash : k \in 1..Len(r.allNewJobs)}

\* C23 (as claimed): two runs in progress at the same time never both hold
\* the same posting as new, so they never both count and notify it.
C23_OverlapCountsOnce ==
  \A p, q \in Procs :
    p # q /\ InProgress(run[p]) /\ InProgress(run[q]) =>
      Counted(run[p]) \cap Counted(run[q]) = {}

\* C24 (as claimed): newJobsFound of a returned run is the number of rows
\* the run added to table jobs, and every posting it handed to the notifier
\* is one of those rows.
C24_CountIsRowsAdded ==
  \A p \in Procs :
    Returned(run[p]) =>
      /\ Summary(run[p]).newJobsFound = Cardinality(run[p].inserted)
      /\ \A n \in 1..Len(run[p].posts) : \A k \in 1..Len(run[p].posts[n].embeds) :
           \E row \in run[p].inserted : row.hash = run[p].posts[n].embeds[k].hash

\* C25 (as claimed): a posting that was stored when a run began is not
\* counted as new by that run, nor handed to its notifier, whether or not
\* the seen lookup for it fails.
C25_StoredNeverNew ==
  \A p \in Procs :
    /\ Counted(run[p]) \cap run[p].storedBefore = {}
    /\ \A n \in 1..Len(run[p].posts) : \A k \in 1..Len(run[p].posts[n].embeds) :
         run[p].posts[n].embeds[k].hash \notin run[p].storedBefore

\* a stored configuration is being replaced: deleteMany is done, create is
\* not yet
Replacing == cfgReq # <<>> /\ cfgReq[1].replaces # <<>>

\* C26 (as claimed): a run that reads the configuration, without a read
\* fault, while a stored configuration is being replaced is given a
\* configuration, the old one or the new one, never none.
C26_ReaderSeesAConfig ==
  [][\A p \in Procs :
       Replacing /\ CheckConfig(p, TRUE) => run'[p].checked[1].configured]_vars

\* C27 (as claimed): when the create of upsertDiscordConfig fails, the
\* configuration stored before the request is stored afterwards, unchanged.
C27_FailedUpdateKeepsConfig ==
  [][ConfigCreate(FALSE) => configTbl' = cfgReq[1].replaces]_vars

\* the fingerprints of the postings a run handed to the webhook
Attempted(r) ==
  UNION {{r.posts[n].embeds[k].hash : k \in 1..Len(r.posts[n].embeds)} : n \in 1..Len(r.posts)}

\* C28: a run without a fault makes at most one notification attempt, and
\* no posting that was stored when it began is part of it; so a posting
\* stored by an earlier run is not notified again, whether or not that
\* run's delivery failed.
C28_FailedDeliveryNotRetried ==
  \A p \in Procs :
    ~run[p].faulty =>
      /\ Len(run[p].posts) <= 1
      /\ Attempted(run[p]) \cap run[p].storedBefore = {}

\* a run without a fault has returned after it fetched again a posting that
\* the run before stored and failed to deliver
C28_Witness ==
  \E p \in Procs :
    /\ Returned(run[p]) /\ ~run[p].faulty
    /\ \E h \in prev.undelivered \cap run[p].storedBefore :
         \E k \in 1..Len(run[p].jobs) : run[p].jobs[k].hash = h

\* the entries of the document behind a response, in document order
EntriesOf(response) ==
  IF response.items.object # {}
  THEN [k \in {1} |-> CHOOSE e \in response.items.object : TRUE]
  ELSE response.items.array

\* C29: for every response fetchRSS returns the empty list or one posting
\* per entry of the document, in document order; with an entry that cannot
\* be mapped it returns the empty list.
C29_AllOrNothing ==
  probe.op = "fetchRSS" =>
    LET entries == EntriesOf(probe.response[1])
        out == probe.out
    IN /\ \/ out = <<>>
          \/ /\ Len(out) = Len(entries)
             /\ \A k \in 1..Len(entries) :
                  /\ out[k].link = entries[k].item.link
                  /\ out[k].title = Substring(entries[k].item.title, TitleMax)
                  /\ out[k].hash = generateHash(entries[k].item.link \o entries[k].item.title)
       /\ (\E k \in 1..Len(entries) : ~entries[k].mappable) => out = <<>>
       /\ probe.response[1].ok /\ (\A k \in 1..Len(entries) : entries[k].mappable)
            => Len(out) = Len(entries)

\* fetchRSS was given a document of two entries of which the second cannot
\* be mapped, and returned the empty list
C29_Witness ==
  /\ probe.op = "fetchRSS"
  /\ probe.response[1].ok
  /\ probe.response[1].items.shape = "array"
  /\ Len(probe.response[1].items.array) = 2
  /\ probe.response[1].items.array[1].mappable
  /\ ~probe.response[1].items.array[2].mappable
  /\ probe.out = <<>>

\* C30: with two stored configurations that differ in the webhook URL at
\* most, GET /config sends the same body, and the config object in the
\* answer of POST /config is the same.
C30_WebhookNotDisclosed ==
  /\ probe.op = "config"
  /\ probe.configs[1].enabled = probe.configs[2].enabled
  /\ probe.configs[1].maxJobsPerMessage = probe.configs[2].maxJobsPerMessage
  => /\ probe.bodies[1].get = probe.bodies[2].get
     /\ probe.bodies[1].post = probe.bodies[2].post

\* the two routes were called with two stored configurations whose webhook
\* URLs differ, and the read of the configuration succeeded
C30_Witness ==
  /\ probe.op = "config"
  /\ probe.configs[1].webhookUrl # probe.configs[2].webhookUrl
  /\ probe.bodies[1].get.configured
  /\ probe.bodies[1].get = probe.bodies[2].get

====
